---- MODULE Spec2Model ----
(***************************************************************************)
(* Payment orchestration flow of the i-Net mobile client:                  *)
(* components/PaymentModal.tsx (state machine, poller, validators,         *)
(* settings resolver), services/api.ts (request envelope) and the caller   *)
(* components/ServiceDetailSheet.tsx (onSuccess / onClose).                *)
(*                                                                         *)
(* One mounted PaymentModal instance is modelled.  Time is kept as the     *)
(* distance to the next firing of every pending timer (due) and as the     *)
(* value Date.now() - startTimeRef.current (elapsed), which is the only    *)
(* way the component reads the clock.                                      *)
(***************************************************************************)
EXTENDS Integers, Sequences, FiniteSets, TLC

\* ---------------------------------------------------------------- bounds
MaxSessions == 2        \* times the caller opens the modal
MaxRetries == 1         \* presses of "Try Again"
MaxCreates == 2         \* order-creation requests issued
MaxOrders == 2          \* orders the gateway creates
MaxCost == 5            \* budget of one run: see Cost
MaxCostReentry == 6     \* budget of a run of SpecReentry
MaxInFlight == 2        \* outstanding requests per order and endpoint
MaxSuccessTimers == 2   \* scheduled setTimeout(onSuccess) callbacks
MaxJitter == 400        \* ms a countdown callback may run after its deadline
IdleStep == 1000        \* ms of network latency passing in one idle step
MaxElapsed == 95000     \* saturation of Date.now() - startTimeRef.current
MaxWaited == 95000      \* saturation of the time spent in 'waiting'

\* ------------------------------------------------------ program constants
POLL_INTERVAL == 3000
POLL_TIMEOUT == 90000
COUNTDOWN_INTERVAL == 1000
SUCCESS_DELAY == 1500
INITIAL_SECONDS == 90
MIN_PROOF_LENGTH == 10
SUBSCRIBER_DIGITS == 9

NoOrder == 0            \* orderId === null
NoTimer == 0            \* pollRef.current / timerRef.current === null

VARIABLES
  visible,          \* showPayment of the caller = prop visible of the modal
  showSuccess,      \* showSuccess of the caller
  phone, step, paymentMethod, secondsLeft, network, orderId, paymentProof,
  paymentSettings, loadingSettings,
  pollRef, timerRef,
  elapsed,          \* Date.now() - startTimeRef.current
  timers,           \* live setInterval timers
  intervalSeq,      \* number of setInterval handles handed out
  confirmOpen,      \* the "Cancel Payment?" alert is on screen
  errorAlert,       \* title of the error alert on screen, or "none"
  fetches,          \* settings requests in flight (session that issued them)
  creates,          \* order-creation requests in flight
  checks,           \* status-check requests in flight, per order
  timeouts,         \* payment-timeout requests in flight, per order
  successTimers,    \* pending setTimeout(() => onSuccess(), 1500)
  nextOrder,        \* orders created by the gateway so far
  session, attempt, retries, createSeq, pollersStarted, successSeq,
  createsThisAttempt, orderAtt, onSuccessCalls, onCloseCalls, waited, lastOp,
  budget,           \* what a run may spend: see Cost
  settingsFrom      \* session whose request loaded paymentSettings, or 0

progVars == <<visible, showSuccess, phone, step, paymentMethod, secondsLeft,
              network, orderId, paymentProof, paymentSettings,
              loadingSettings, pollRef, timerRef, elapsed, timers,
              intervalSeq, confirmOpen, errorAlert, fetches, creates, checks,
              timeouts, successTimers, nextOrder>>
histVars == <<session, attempt, retries, createSeq, pollersStarted,
              successSeq, createsThisAttempt, orderAtt, onSuccessCalls,
              onCloseCalls, waited, lastOp, budget, settingsFrom>>
vars == <<progVars, histVars>>

Orders == 1..MaxOrders
Attempts == 1..(MaxSessions + MaxRetries)

Min(a, b) == IF a < b THEN a ELSE b
Max(a, b) == IF a > b THEN a ELSE b
MinOf(S) == CHOOSE x \in S : \A y \in S : x <= y

\* Math.ceil(a / b) for b > 0
CeilDiv(a, b) == -((-a) \div b)

\* ------------------------------------------------------------ validators
Digits == {"0", "1", "2", "3", "4", "5", "6", "7", "8", "9"}
Whitespace == {" ", "\t", "\n"}

IsNotWhitespace(c) == c \notin Whitespace

\* phone.replace(/\s/g, '')
CleanPhone(p) == SelectSeq(p, IsNotWhitespace)

AllDigits(s, from, to) == \A i \in from..to : s[i] \in Digits

\* variant: the pattern without the closing anchor, /^(\+?255|0)\d{9}/
PhoneValidUnanchored(s) ==
  \/ /\ Len(s) >= 1 + SUBSCRIBER_DIGITS
     /\ s[1] = "0"
     /\ AllDigits(s, 2, 1 + SUBSCRIBER_DIGITS)
  \/ /\ Len(s) >= 3 + SUBSCRIBER_DIGITS
     /\ SubSeq(s, 1, 3) = <<"2", "5", "5">>
     /\ AllDigits(s, 4, 3 + SUBSCRIBER_DIGITS)
  \/ /\ Len(s) >= 4 + SUBSCRIBER_DIGITS
     /\ SubSeq(s, 1, 4) = <<"+", "2", "5", "5">>
     /\ AllDigits(s, 5, 4 + SUBSCRIBER_DIGITS)

\* /^(\+?255|0)\d{9}$/.test(s)
PhoneValid(s) ==
  \/ /\ Len(s) = 1 + SUBSCRIBER_DIGITS
     /\ s[1] = "0"
     /\ AllDigits(s, 2, Len(s))
  \/ /\ Len(s) = 3 + SUBSCRIBER_DIGITS
     /\ SubSeq(s, 1, 3) = <<"2", "5", "5">>
     /\ AllDigits(s, 4, Len(s))
  \/ /\ Len(s) = 4 + SUBSCRIBER_DIGITS
     /\ SubSeq(s, 1, 4) = <<"+", "2", "5", "5">>
     /\ AllDigits(s, 5, Len(s))

RECURSIVE TrimStart(_)
TrimStart(s) ==
  IF s # <<>> /\ Head(s) \in Whitespace THEN TrimStart(Tail(s)) ELSE s

RECURSIVE TrimEnd(_)
TrimEnd(s) ==
  IF s # <<>> /\ s[Len(s)] \in Whitespace
  THEN TrimEnd(SubSeq(s, 1, Len(s) - 1)) ELSE s

\* variant: only the leading whitespace is removed
TrimStartOnly(s) == TrimStart(s)

\* paymentProof.trim()
Trim(s) == TrimEnd(TrimStart(s))

\* variant: the length test on the text as typed
ProofValidUntrimmed(t) == t # <<>> /\ Len(t) >= MIN_PROOF_LENGTH

\* !(!paymentProof.trim() || paymentProof.trim().length < 10)
ProofValid(t) == Trim(t) # <<>> /\ Len(Trim(t)) >= MIN_PROOF_LENGTH

\* ---------------------------------------------------------------- inputs
\* user?.phone || ''
UserPhone == <<>>

\* what the user types: a phone with spaces, a proof with padding
PhoneInputs ==
  { <<"0", "7", "1", "2", " ", "3", "4", "5", " ", "6", "7", "8">> }

ProofInputs ==
  { <<" ", "T", "X", "N", "1", "2", "3", "4", "5", "6", "7", " ">> }

\* What the user types in the runs that exercise the validators, grouped
\* by the verdict expected of the validator.
\* typed phones the validator is to accept
AcceptedPhones ==
  { <<"0", "7", "1", "2", "3", "4", "5", "6", "7", "8">>,
    <<"+", "2", "5", "5", "7", "1", "2", "3", "4", "5", "6", "7", "8">>,
    <<"2", "5", "5", "7", "1", "2", "3", "4", "5", "6", "7", "8">>,
    <<"0", "7", "1", "2", " ", "3", "4", "5", " ", "6", "7", "8">>,
    <<" ", "+", "2", "5", "5", " ", "7", "1", "2", "\t", "3", "4", "5", " ", "6", "7", "8", "\n">> }

\* typed phones the validator is to reject (the empty text is the start value)
RejectedPhones ==
  { <<"0", "7", "1", "2">>,
    <<"0", "7", "1", "2", "3", "4", "5", "6", "7", "8", "9", "0">>,
    <<"a", "b", "c", "1", "2", "3", "4", "5", "6", "7">>,
    <<"+", "0", "7", "1", "2", "3", "4", "5", "6", "7", "8">>,
    <<"2", "5", "5", "7", "1", "2", "3", "4", "5", "6", "7">>,
    <<"0", "7", "1", "2", "3", "4", "5", "6", "7", "a">>,
    <<"2", "5", "5", "0", "7", "1", "2", "3", "4", "5", "6", "7", "8">> }

\* typed proof texts the validator is to accept
AcceptedProofs ==
  { <<"T", "X", "N", "1", "2", "3", "4", "5", "6", "7">>,
    <<" ", "T", "X", "N", "1", "2", "3", "4", "5", "6", "7", " ">>,
    <<"A", "B", " ", "C", "D", " ", "E", "F", " ", "G", "H">>,
    <<"A", " ", " ", " ", " ", " ", " ", " ", " ", "B">> }

\* typed proof texts the validator is to reject (the empty text is the start value)
RejectedProofs ==
  { <<" ", " ", " ", " ", " ", " ", " ", " ", " ", " ", " ", " ">>,
    <<"T", "X", "N", "1", "2", "3", "4", "5", "6">>,
    <<" ", "T", "X", "N", "1", "2", "3", "4", "5", "6", " ">>,
    <<"\t", "T", "X", "N", " ", "1", "2", "3", "4", "5", "\n">> }

PhoneSamples == AcceptedPhones \cup RejectedPhones
ProofSamples == AcceptedProofs \cup RejectedProofs

\* ------------------------------------------------------- request envelope
\* What the network delivers for one request: fetch() or response.json()
\* throws ("neterr"), or the server's JSON body arrives.
NetErr == [kind |-> "neterr", success |-> FALSE, data |-> <<>>]
Json(ok, d) == [kind |-> "json", success |-> ok, data |-> d]

\* request(): the body as parsed, or {success: false, message} on a throw
ApiRequest(raw) ==
  IF raw.kind = "neterr"
  THEN [success |-> FALSE, data |-> <<>>]
  ELSE [success |-> raw.success, data |-> raw.data]

\* PaymentSettingsData; an absent or empty string is ""
PayoutSettings(u, m, ph, nm) ==
  [ussdPaymentEnabled |-> u, manualPaymentEnabled |-> m,
   manualPaymentPhone |-> ph, manualPaymentName |-> nm]
PayoutPhone == "0700000000"
PayoutName == "i-Net"

Settings(u, m) == PayoutSettings(u, m, PayoutPhone, PayoutName)
SettingsSet == {Settings(u, m) : u \in BOOLEAN, m \in BOOLEAN}

\* settings with or without the number and the name to send the money to
PayoutSettingsSet ==
  {PayoutSettings(u, m, ph, nm) :
     u \in BOOLEAN, m \in BOOLEAN, ph \in {"", PayoutPhone},
     nm \in {"", PayoutName}}
NoSettings == <<>>      \* paymentSettings === null

SettingsRaws ==
  {NetErr, Json(FALSE, <<>>)} \cup {Json(TRUE, <<s>>) : s \in SettingsSet}

PayoutSettingsRaws ==
  {NetErr, Json(FALSE, <<>>)} \cup {Json(TRUE, <<s>>) : s \in PayoutSettingsSet}

PaymentStatuses == {"pending", "completed", "failed"}
StatusRaws ==
  {NetErr, Json(FALSE, <<>>), Json(TRUE, <<>>)}
    \cup {Json(TRUE, <<[paymentStatus |-> s]>>) : s \in PaymentStatuses}

GatewayNetwork == "M-Pesa"
OrderData(id) == [_id |-> id, paymentNetwork |-> GatewayNetwork]
CreateRaws(id) ==
  {NetErr, Json(FALSE, <<>>), Json(TRUE, <<>>), Json(TRUE, <<OrderData(id)>>)}

AckRaws == {NetErr, Json(FALSE, <<>>), Json(TRUE, <<>>)}

RawLabel(raw) ==
  IF raw.kind = "neterr" THEN "neterr"
  ELSE IF ~raw.success THEN "success=false"
  ELSE IF raw.data = <<>> THEN "nodata"
  ELSE "data"

\* paymentSettings?.ussdPaymentEnabled / ?.manualPaymentEnabled
UssdEnabled(ps) == ps # NoSettings /\ ps[1].ussdPaymentEnabled
ManualEnabled(ps) == ps # NoSettings /\ ps[1].manualPaymentEnabled

\* ------------------------------------------------------------------ init
InitState ==
  /\ visible = FALSE
  /\ showSuccess = FALSE
  /\ phone = <<>>
  /\ step = "method"
  /\ paymentMethod = "ussd"
  /\ secondsLeft = INITIAL_SECONDS
  /\ network = ""
  /\ orderId = NoOrder
  /\ paymentProof = <<>>
  /\ paymentSettings = NoSettings
  /\ loadingSettings = TRUE
  /\ pollRef = NoTimer
  /\ timerRef = NoTimer
  /\ elapsed = 0
  /\ timers = {}
  /\ intervalSeq = 0
  /\ confirmOpen = FALSE
  /\ errorAlert = "none"
  /\ fetches = {}
  /\ creates = {}
  /\ checks = [o \in Orders |-> 0]
  /\ timeouts = [o \in Orders |-> 0]
  /\ successTimers = {}
  /\ nextOrder = 0
  /\ session = 0
  /\ attempt = 0
  /\ retries = 0
  /\ createSeq = 0
  /\ pollersStarted = 0
  /\ successSeq = 0
  /\ createsThisAttempt = 0
  /\ orderAtt = [o \in Orders |-> 0]
  /\ onSuccessCalls = [a \in Attempts |-> 0]
  /\ onCloseCalls = 0
  /\ waited = 0
  /\ lastOp = <<"init", "">>
  /\ settingsFrom = 0

Init == InitState /\ budget = MaxCost

\* --------------------------------------------------------------- helpers
\* history kept beside the program: the last operation, when it is one of
\* those that can leave the program state as it was, the time spent in
\* 'waiting' (d = ms that pass in this step) and the session whose settings
\* request loaded paymentSettings
Hist(op, label, d) ==
  /\ lastOp' = IF label # "" THEN <<op, label>> ELSE <<"", "">>
  /\ waited' = IF step' = "waiting"
               THEN (IF step = "waiting" THEN Min(waited + d, MaxWaited) ELSE 0)
               ELSE 0
  /\ budget' = budget
  /\ settingsFrom' =
       IF op = "SettingsResponse" /\ label = "data"
       THEN CHOOSE f \in fetches : f \notin fetches'
       ELSE settingsFrom

\* secondsLeft is rendered by the waiting step only and is written before
\* every entry into it; elsewhere the model keeps its initial value
Shown(secs, st) == IF st = "waiting" THEN secs ELSE INITIAL_SECONDS

\* the clock is read only by countdown callbacks
HasCountdown(ts) == \E t \in ts : t.kind = "countdown"
ElapsedFor(e, ts) == IF HasCountdown(ts) THEN e ELSE 0

\* stopPolling(): clearInterval on the two handles, then null them
stopPolling ==
  /\ pollRef' = NoTimer
  /\ timerRef' = NoTimer
  /\ timers' = {t \in timers : t.id \notin {pollRef, timerRef}}
  /\ elapsed' = ElapsedFor(elapsed, timers')

\* startPolling(orderIdToCheck): the countdown interval is created first
StartedTimers(oid) ==
  { [id |-> intervalSeq + 1, kind |-> "countdown", oid |-> oid,
     due |-> COUNTDOWN_INTERVAL],
    [id |-> intervalSeq + 2, kind |-> "poll", oid |-> oid,
     due |-> POLL_INTERVAL] }

startPolling(oid) ==
  /\ elapsed' = 0
  /\ timers' = timers \cup StartedTimers(oid)
  /\ timerRef' = intervalSeq + 1
  /\ pollRef' = intervalSeq + 2
  /\ intervalSeq' = intervalSeq + 2
  /\ pollersStarted' = pollersStarted + 1

\* variant: onSuccess is called without the display delay
ScheduledSuccessAtOnce(att) ==
  successTimers \cup {[id |-> successSeq + 1, att |-> att, due |-> 0]}

\* setTimeout(() => onSuccess(), 1500)
ScheduledSuccess(att) ==
  successTimers \cup {[id |-> successSeq + 1, att |-> att, due |-> SUCCESS_DELAY]}

\* Once the caller shows the success screen the flow is over: closing that
\* screen unmounts the sheet and the modal with it.  From then on only the
\* pending setTimeout callbacks are followed.
FlowOver == showSuccess

\* the touchables of the modal respond only while it is shown and no alert
\* covers it
CanTouch == visible /\ ~confirmOpen /\ errorAlert = "none"

\* What a run has spent of its budget: an opening of the modal counts 2, a
\* press of "Try Again" 1 and an order-creation request 1.  Within MaxCost
\* a run is one opening with a retry and two creations, or two openings and
\* one creation; within MaxCostReentry it can be two openings and two
\* creations.
Cost == 2 * session + retries + createSeq

histOnly == <<session, attempt, retries, createSeq, pollersStarted,
              successSeq, createsThisAttempt, orderAtt, onSuccessCalls,
              onCloseCalls>>

\* ------------------------------------------------------- caller, opening
\* ServiceDetailSheet.handleSlideComplete, then the [visible] effect of the
\* modal with visible = true
SlideToOrder ==
  /\ ~visible /\ ~showSuccess /\ ~confirmOpen /\ errorAlert = "none"
  /\ session < MaxSessions /\ Cost + 2 <= budget
  /\ visible' = TRUE
  /\ step' = "method"
  /\ paymentMethod' = "ussd"
  /\ phone' = UserPhone
  /\ secondsLeft' = INITIAL_SECONDS
  /\ network' = ""
  /\ orderId' = NoOrder
  /\ paymentProof' = <<>>
  /\ loadingSettings' = TRUE
  /\ fetches' = fetches \cup {session + 1}
  /\ session' = session + 1
  /\ attempt' = attempt + 1
  /\ createsThisAttempt' = 0
  /\ UNCHANGED <<showSuccess, paymentSettings, pollRef, timerRef, elapsed,
                 timers, intervalSeq, confirmOpen, errorAlert, creates,
                 checks, timeouts, successTimers, nextOrder, retries,
                 createSeq, pollersStarted, successSeq, orderAtt,
                 onSuccessCalls, onCloseCalls>>
  /\ Hist("SlideToOrder", "", 0)

\* variant: the resolver looks at ussdPaymentEnabled only
ResolvedStepUssdFirst(data, st) ==
  IF UssdEnabled(data) THEN "phone"
  ELSE IF ManualEnabled(data) THEN "manual_info"
  ELSE st

\* the resolver of the settings effect: with exactly one rail enabled the
\* method selection is skipped, otherwise step is left as it is
ResolvedStep(data, st) ==
  IF UssdEnabled(data) /\ ~ManualEnabled(data) THEN "phone"
  ELSE IF ~UssdEnabled(data) /\ ManualEnabled(data) THEN "manual_info"
  ELSE st

ResolvedMethod(data, m) ==
  IF UssdEnabled(data) /\ ~ManualEnabled(data) THEN "ussd"
  ELSE IF ~UssdEnabled(data) /\ ManualEnabled(data) THEN "manual"
  ELSE m

\* variant: the spinner is taken down only when settings were loaded
LoadingAfterResponseKept(res) == ~(res.success /\ res.data # <<>>)

\* setLoadingSettings(false), in .then after the if and in .catch
LoadingAfterResponse(res) == FALSE

\* settingsAPI.getPaymentSettings().then(...)
SettingsResponse(s, raw) ==
  /\ ~FlowOver
  /\ s \in fetches
  /\ fetches' = fetches \ {s}
  /\ LET res == ApiRequest(raw) IN
       /\ IF res.success /\ res.data # <<>>
          THEN /\ paymentSettings' = res.data
               /\ paymentMethod' = ResolvedMethod(res.data, paymentMethod)
               /\ step' = ResolvedStep(res.data, step)
          ELSE UNCHANGED <<paymentSettings, paymentMethod, step>>
       /\ loadingSettings' = LoadingAfterResponse(res)
  /\ secondsLeft' = Shown(secondsLeft, step')
  /\ UNCHANGED <<visible, showSuccess, phone, network, orderId,
                 paymentProof, pollRef, timerRef, elapsed, timers,
                 intervalSeq, confirmOpen, errorAlert, creates, checks,
                 timeouts, successTimers, nextOrder, histOnly>>
  /\ Hist("SettingsResponse", RawLabel(raw), 0)

\* handleSelectMethod(method); a card is rendered only for an enabled rail
handleSelectMethod(m) ==
  /\ CanTouch /\ step = "method" /\ ~loadingSettings
  /\ IF m = "ussd" THEN UssdEnabled(paymentSettings)
                   ELSE ManualEnabled(paymentSettings)
  /\ paymentMethod' = m
  /\ step' = IF m = "ussd" THEN "phone" ELSE "manual_info"
  /\ UNCHANGED <<visible, showSuccess, phone, secondsLeft, network, orderId,
                 paymentProof, paymentSettings, loadingSettings, pollRef,
                 timerRef, elapsed, timers, intervalSeq, confirmOpen,
                 errorAlert, fetches, creates, checks, timeouts,
                 successTimers, nextOrder, histOnly>>
  /\ Hist("handleSelectMethod", "", 0)

\* onChangeText={setPhone}
setPhone(p) ==
  /\ CanTouch
  /\ \/ step = "phone"
     \/ step = "manual_info" /\ paymentSettings # NoSettings
  /\ p # phone
  /\ phone' = p
  /\ UNCHANGED <<visible, showSuccess, step, paymentMethod, secondsLeft,
                 network, orderId, paymentProof, paymentSettings,
                 loadingSettings, pollRef, timerRef, elapsed, timers,
                 intervalSeq, confirmOpen, errorAlert, fetches, creates,
                 checks, timeouts, successTimers, nextOrder, histOnly>>
  /\ Hist("setPhone", "", 0)

\* onChangeText={setPaymentProof}
setPaymentProof(t) ==
  /\ CanTouch /\ step = "manual_info" /\ paymentSettings # NoSettings
  /\ t # paymentProof
  /\ paymentProof' = t
  /\ UNCHANGED <<visible, showSuccess, step, paymentMethod, secondsLeft,
                 network, orderId, phone, paymentSettings, loadingSettings,
                 pollRef, timerRef, elapsed, timers, intervalSeq,
                 confirmOpen, errorAlert, fetches, creates, checks, timeouts,
                 successTimers, nextOrder, histOnly>>
  /\ Hist("setPaymentProof", "", 0)

\* Alert.alert(title, message) with the default OK button, then OK
dismissAlert ==
  /\ ~FlowOver
  /\ errorAlert # "none"
  /\ errorAlert' = "none"
  /\ UNCHANGED <<visible, showSuccess, phone, step, paymentMethod,
                 secondsLeft, network, orderId, paymentProof,
                 paymentSettings, loadingSettings, pollRef, timerRef,
                 elapsed, timers, intervalSeq, confirmOpen, fetches, creates,
                 checks, timeouts, successTimers, nextOrder, histOnly>>
  /\ Hist("dismissAlert", "", 0)

\* ------------------------------------------------------------ submission
\* variant: the submit handler forgets to leave the entry step
SubmittingStepNotEntered(rail) ==
  IF rail = "ussd" THEN "phone" ELSE "manual_info"

\* setStep('initiating') / setStep('manual_submitting') before the await
SubmittingStep(rail) ==
  IF rail = "ussd" THEN "initiating" ELSE "manual_submitting"

\* variant: the catch branches send the user back to method selection
CatchStepMethod(rail) == "method"

\* variant: the catch branches land on the entry step of the other rail
CatchStepOtherRail(rail) == IF rail = "ussd" THEN "manual_info" ELSE "phone"

\* the catch branches: setStep('phone') / setStep('manual_info')
CatchStep(rail) == IF rail = "ussd" THEN "phone" ELSE "manual_info"

\* labels of the responses that make a request fail
FailLabel(raw, needsData) ==
  IF ~ApiRequest(raw).success \/ (needsData /\ ApiRequest(raw).data = <<>>)
  THEN RawLabel(raw) ELSE ""

\* handleSubmitPhone up to the await of ordersAPI.create
handleSubmitPhone ==
  /\ CanTouch /\ step = "phone"
  /\ LET cleanPhone == CleanPhone(phone) IN
       IF ~PhoneValid(cleanPhone)
       THEN /\ errorAlert' = "Invalid Number"
            /\ UNCHANGED <<step, creates, createSeq, createsThisAttempt>>
       ELSE /\ createSeq < MaxCreates /\ Cost + 1 <= budget
            /\ step' = SubmittingStep("ussd")
            /\ creates' = creates \cup
                 {[id |-> createSeq + 1, rail |-> "ussd",
                   paymentPhone |-> cleanPhone, manualPaymentProof |-> <<>>,
                   att |-> attempt]}
            /\ createSeq' = createSeq + 1
            /\ createsThisAttempt' = createsThisAttempt + 1
            /\ UNCHANGED errorAlert
  /\ UNCHANGED <<visible, showSuccess, phone, paymentMethod, secondsLeft,
                 network, orderId, paymentProof, paymentSettings,
                 loadingSettings, pollRef, timerRef, elapsed, timers,
                 intervalSeq, confirmOpen, fetches, checks, timeouts,
                 successTimers, nextOrder, session, attempt, retries,
                 pollersStarted, successSeq, orderAtt, onSuccessCalls,
                 onCloseCalls>>
  /\ Hist("handleSubmitPhone", "pressed", 0)

\* handleSubmitManualPayment up to the await of ordersAPI.createManual
handleSubmitManualPayment ==
  /\ CanTouch /\ step = "manual_info" /\ paymentSettings # NoSettings
  /\ LET cleanPhone == CleanPhone(phone) IN
       IF ~ProofValid(paymentProof)
       THEN /\ errorAlert' = "Payment Proof Required"
            /\ UNCHANGED <<step, creates, createSeq, createsThisAttempt>>
       ELSE IF ~PhoneValid(cleanPhone)
       THEN /\ errorAlert' = "Invalid Number"
            /\ UNCHANGED <<step, creates, createSeq, createsThisAttempt>>
       ELSE /\ createSeq < MaxCreates /\ Cost + 1 <= budget
            /\ step' = SubmittingStep("manual")
            /\ creates' = creates \cup
                 {[id |-> createSeq + 1, rail |-> "manual",
                   paymentPhone |-> cleanPhone,
                   manualPaymentProof |-> Trim(paymentProof),
                   att |-> attempt]}
            /\ createSeq' = createSeq + 1
            /\ createsThisAttempt' = createsThisAttempt + 1
            /\ UNCHANGED errorAlert
  /\ UNCHANGED <<visible, showSuccess, phone, paymentMethod, secondsLeft,
                 network, orderId, paymentProof, paymentSettings,
                 loadingSettings, pollRef, timerRef, elapsed, timers,
                 intervalSeq, confirmOpen, fetches, checks, timeouts,
                 successTimers, nextOrder, session, attempt, retries,
                 pollersStarted, successSeq, orderAtt, onSuccessCalls,
                 onCloseCalls>>
  /\ Hist("handleSubmitManualPayment", "pressed", 0)

\* the gateway numbers the orders it creates
GatewayCreates(raw) ==
  /\ raw \in CreateRaws(nextOrder + 1)
  /\ IF raw.data # <<>>
     THEN /\ nextOrder < MaxOrders
          /\ nextOrder' = nextOrder + 1
     ELSE UNCHANGED nextOrder

\* handleSubmitPhone after the await: the try body or the catch
CreateResponseUssd(c, raw) ==
  /\ ~FlowOver
  /\ c \in creates /\ c.rail = "ussd"
  /\ GatewayCreates(raw)
  /\ creates' = creates \ {c}
  /\ LET response == ApiRequest(raw) IN
       IF ~response.success \/ response.data = <<>>
       THEN /\ step' = CatchStep("ussd")
            /\ errorAlert' = "Payment Error"
            /\ secondsLeft' = Shown(secondsLeft, step')
            /\ UNCHANGED <<orderId, network, pollRef, timerRef,
                           elapsed, timers, intervalSeq, pollersStarted,
                           orderAtt>>
       ELSE LET order == response.data[1] IN
            /\ orderId' = order._id
            /\ network' = order.paymentNetwork
            /\ secondsLeft' = INITIAL_SECONDS
            /\ step' = "waiting"
            /\ startPolling(order._id)
            /\ orderAtt' = [orderAtt EXCEPT ![order._id] = c.att]
            /\ UNCHANGED errorAlert
  /\ UNCHANGED <<visible, showSuccess, phone, paymentMethod, paymentProof,
                 paymentSettings, loadingSettings, confirmOpen, fetches,
                 checks, timeouts, successTimers, session, attempt, retries,
                 createSeq, successSeq, createsThisAttempt, onSuccessCalls,
                 onCloseCalls>>
  /\ Hist("CreateResponseUssd", FailLabel(raw, TRUE), 0)

\* variant: the manual rail waits for the gateway like the USSD rail
ManualSuccessStepWaiting == "waiting"

\* setStep('success') of handleSubmitManualPayment
ManualSuccessStep == "success"

\* handleSubmitManualPayment after the await: the try body or the catch
CreateResponseManual(c, raw) ==
  /\ ~FlowOver
  /\ c \in creates /\ c.rail = "manual"
  /\ GatewayCreates(raw)
  /\ creates' = creates \ {c}
  /\ LET response == ApiRequest(raw) IN
       IF ~response.success
       THEN /\ step' = CatchStep("manual")
            /\ errorAlert' = "Error"
            /\ UNCHANGED <<successTimers, successSeq>>
       ELSE /\ successSeq < MaxSuccessTimers
            /\ step' = ManualSuccessStep
            /\ successTimers' = ScheduledSuccess(c.att)
            /\ successSeq' = successSeq + 1
            /\ UNCHANGED errorAlert
  /\ secondsLeft' = Shown(secondsLeft, step')
  /\ UNCHANGED <<visible, showSuccess, phone, paymentMethod,
                 network, orderId, paymentProof, paymentSettings,
                 loadingSettings, pollRef, timerRef, elapsed, timers,
                 intervalSeq, confirmOpen, fetches, checks, timeouts,
                 session, attempt, retries, createSeq, pollersStarted,
                 createsThisAttempt, orderAtt, onSuccessCalls, onCloseCalls>>
  /\ Hist("CreateResponseManual",
          IF FailLabel(raw, FALSE) # "" THEN FailLabel(raw, FALSE) ELSE "ok",
          0)

\* ------------------------------------------------------------------ time
\* A setInterval or setTimeout callback runs when its deadline is the next
\* one: the time up to it (d) passes and the callback runs.
Dues ==
  {s.due : s \in successTimers}
    \cup (IF FlowOver THEN {} ELSE {t.due : t \in timers})
IsNext(x) == x.due = MinOf(Dues)

Later(S, d) == {[x EXCEPT !.due = @ - d] : x \in S}
ElapsedAfter(d) == Min(elapsed + d, MaxElapsed)

\* ---------------------------------------------------------------- poller
\* the interval t, if still live, fires again one period later
Rescheduled(ts, t, period) ==
  IF t \in ts THEN (ts \ {t}) \cup {[t EXCEPT !.due = period]} ELSE ts

\* variant: only the poll interval is cleared
ClearedPollOnly(ts) == {t \in ts : t.id # pollRef}

\* clearInterval on the handles in pollRef and timerRef
Cleared(ts) == {t \in ts : t.id \notin {pollRef, timerRef}}

\* Math.max(0, Math.ceil((POLL_TIMEOUT - elapsed) / 1000))
Remaining(e) == Max(0, CeilDiv(POLL_TIMEOUT - e, 1000))

\* the countdown callback of startPolling, run j ms after its deadline, up
\* to the await inside handleTimeout
CountdownTick(t, j) ==
  /\ ~FlowOver
  /\ t \in timers /\ t.kind = "countdown" /\ IsNext(t)
  /\ LET d == t.due
         now == [t EXCEPT !.due = 0]
         remaining == Remaining(ElapsedAfter(d) + j)
     IN
       /\ secondsLeft' = Shown(remaining, step)
       /\ IF remaining <= 0
          THEN /\ timeouts[t.oid] < MaxInFlight
               /\ pollRef' = NoTimer
               /\ timerRef' = NoTimer
               /\ timers' = Rescheduled(Cleared(Later(timers, d)), now,
                                        COUNTDOWN_INTERVAL)
               /\ timeouts' = [timeouts EXCEPT ![t.oid] = @ + 1]
          ELSE /\ timers' = Rescheduled(Later(timers, d), now,
                                        COUNTDOWN_INTERVAL)
               /\ UNCHANGED <<pollRef, timerRef, timeouts>>
       /\ successTimers' = Later(successTimers, d)
       /\ elapsed' = ElapsedFor(ElapsedAfter(d), timers')
       /\ UNCHANGED <<visible, showSuccess, phone, step, paymentMethod,
                      network, orderId, paymentProof, paymentSettings,
                      loadingSettings, intervalSeq, confirmOpen, errorAlert,
                      fetches, creates, checks, nextOrder, histOnly>>
       /\ Hist("CountdownTick", IF remaining <= 0 THEN "zero" ELSE "", d)

\* the poll callback of startPolling up to the await of checkPaymentStatus
PollTick(t) ==
  /\ ~FlowOver
  /\ t \in timers /\ t.kind = "poll" /\ IsNext(t)
  /\ checks[t.oid] < MaxInFlight
  /\ LET d == t.due IN
       /\ checks' = [checks EXCEPT ![t.oid] = @ + 1]
       /\ timers' = Rescheduled(Later(timers, d), [t EXCEPT !.due = 0],
                                POLL_INTERVAL)
       /\ successTimers' = Later(successTimers, d)
       /\ elapsed' = ElapsedFor(ElapsedAfter(d), timers')
       /\ UNCHANGED <<visible, showSuccess, phone, step, paymentMethod,
                      secondsLeft, network, orderId, paymentProof,
                      paymentSettings, loadingSettings, pollRef, timerRef,
                      intervalSeq, confirmOpen, errorAlert, fetches, creates,
                      timeouts, nextOrder, histOnly>>
       /\ Hist("PollTick", "", d)

\* variant: a check that did not succeed counts as a failed payment
TerminalStatusOnError(res) ==
  IF ~res.success \/ res.data = <<>> THEN "failed"
  ELSE IF res.data[1].paymentStatus \in {"completed", "failed"}
  THEN res.data[1].paymentStatus ELSE "none"

\* what the poll callback makes of a response: the terminal status it acts
\* on, or "none" (pending, no data, success=false, a throw)
TerminalStatus(res) ==
  IF res.success /\ res.data # <<>>
       /\ res.data[1].paymentStatus \in {"completed", "failed"}
  THEN res.data[1].paymentStatus ELSE "none"

\* the poll callback of startPolling after the await
CheckResponse(o, raw) ==
  /\ ~FlowOver
  /\ checks[o] > 0
  /\ checks' = [checks EXCEPT ![o] = @ - 1]
  /\ LET res == ApiRequest(raw) IN
       IF TerminalStatus(res) = "completed"
       THEN /\ successSeq < MaxSuccessTimers
            /\ stopPolling
            /\ step' = "success"
            /\ successTimers' = ScheduledSuccess(orderAtt[o])
            /\ successSeq' = successSeq + 1
       ELSE IF TerminalStatus(res) = "failed"
       THEN /\ stopPolling
            /\ step' = "failed"
            /\ UNCHANGED <<successTimers, successSeq>>
       ELSE UNCHANGED <<pollRef, timerRef, timers, elapsed, step,
                        successTimers, successSeq>>
  /\ secondsLeft' = Shown(secondsLeft, step')
  /\ UNCHANGED <<visible, showSuccess, phone, paymentMethod,
                 network, orderId, paymentProof, paymentSettings,
                 loadingSettings, intervalSeq, confirmOpen, errorAlert,
                 fetches, creates, timeouts, nextOrder, session, attempt,
                 retries, createSeq, pollersStarted, createsThisAttempt,
                 orderAtt, onSuccessCalls, onCloseCalls>>
  /\ Hist("CheckResponse",
          IF step = "waiting" THEN FailLabel(raw, TRUE) ELSE "", 0)

\* handleTimeout after the await of ordersAPI.paymentTimeout
TimeoutResponse(o, raw) ==
  /\ ~FlowOver
  /\ timeouts[o] > 0
  /\ timeouts' = [timeouts EXCEPT ![o] = @ - 1]
  /\ step' = "failed"
  /\ secondsLeft' = Shown(secondsLeft, step')
  /\ UNCHANGED <<visible, showSuccess, phone, paymentMethod,
                 network, orderId, paymentProof, paymentSettings,
                 loadingSettings, pollRef, timerRef, elapsed, timers,
                 intervalSeq, confirmOpen, errorAlert, fetches, creates,
                 checks, successTimers, nextOrder, histOnly>>
  /\ Hist("TimeoutResponse", RawLabel(raw), 0)

\* ------------------------------------------------- notifying the caller
\* stopPolling(); onClose(): ServiceDetailSheet.handlePaymentClose hides
\* the modal, whose [visible] effect calls stopPolling() once more
closeFlow ==
  /\ stopPolling
  /\ visible' = FALSE
  /\ onCloseCalls' = onCloseCalls + 1

\* the setTimeout callback: onSuccess() = handlePaymentSuccess, then the
\* [visible] effect of the modal when visible changed
SuccessTimerFire(s) ==
  /\ s \in successTimers /\ IsNext(s)
  /\ successTimers' = Later(successTimers \ {s}, s.due)
  /\ onSuccessCalls' = [onSuccessCalls EXCEPT ![s.att] = @ + 1]
  /\ visible' = FALSE
  /\ showSuccess' = TRUE
  /\ IF visible
     THEN /\ pollRef' = NoTimer
          /\ timerRef' = NoTimer
          /\ timers' = Cleared(Later(timers, s.due))
          /\ elapsed' = ElapsedFor(ElapsedAfter(s.due), timers')
     ELSE IF FlowOver
     THEN UNCHANGED <<pollRef, timerRef, timers, elapsed>>
     ELSE /\ timers' = Later(timers, s.due)
          /\ elapsed' = ElapsedFor(ElapsedAfter(s.due), timers')
          /\ UNCHANGED <<pollRef, timerRef>>
  /\ UNCHANGED <<phone, step, paymentMethod, secondsLeft, network, orderId,
                 paymentProof, paymentSettings, loadingSettings, intervalSeq,
                 confirmOpen, errorAlert, fetches, creates, checks, timeouts,
                 nextOrder, session, attempt, retries, createSeq,
                 pollersStarted, successSeq, createsThisAttempt, orderAtt,
                 onCloseCalls>>
  /\ Hist("SuccessTimerFire", "", s.due)

\* variant: only the USSD submission blocks the close request
CloseBlockedUssdOnly(st) == st = "initiating"

\* if (step === 'initiating' || step === 'manual_submitting') return;
CloseBlocked(st) == st = "initiating" \/ st = "manual_submitting"

\* variant: a close request while waiting closes without asking
NeedsConfirmNever(st) == FALSE

\* if (step === 'waiting') { Alert.alert('Cancel Payment?', ...); return; }
NeedsConfirm(st) == st = "waiting"

\* handleClose: close button, backdrop press, hardware back
handleClose ==
  /\ CanTouch
  /\ IF CloseBlocked(step)
     THEN UNCHANGED <<visible, pollRef, timerRef, timers, elapsed,
                      confirmOpen, onCloseCalls>>
     ELSE IF NeedsConfirm(step)
     THEN /\ confirmOpen' = TRUE
          /\ UNCHANGED <<visible, pollRef, timerRef, timers, elapsed,
                         onCloseCalls>>
     ELSE /\ closeFlow
          /\ UNCHANGED confirmOpen
  /\ UNCHANGED <<showSuccess, phone, step, paymentMethod, secondsLeft,
                 network, orderId, paymentProof, paymentSettings,
                 loadingSettings, intervalSeq, errorAlert, fetches, creates,
                 checks, timeouts, successTimers, nextOrder, session,
                 attempt, retries, createSeq, pollersStarted, successSeq,
                 createsThisAttempt, orderAtt, onSuccessCalls>>
  /\ Hist("handleClose",
          IF step \in {"initiating", "manual_submitting"} THEN "blocked"
          ELSE "", 0)

\* the 'Close' button of the "Cancel Payment?" alert
confirmClose ==
  /\ ~FlowOver
  /\ confirmOpen
  /\ confirmOpen' = FALSE
  /\ closeFlow
  /\ UNCHANGED <<showSuccess, phone, step, paymentMethod, secondsLeft,
                 network, orderId, paymentProof, paymentSettings,
                 loadingSettings, intervalSeq, errorAlert, fetches, creates,
                 checks, timeouts, successTimers, nextOrder, session,
                 attempt, retries, createSeq, pollersStarted, successSeq,
                 createsThisAttempt, orderAtt, onSuccessCalls>>
  /\ Hist("confirmClose", "", 0)

\* the 'Keep Waiting' button of the "Cancel Payment?" alert
keepWaiting ==
  /\ ~FlowOver
  /\ confirmOpen
  /\ confirmOpen' = FALSE
  /\ UNCHANGED <<visible, showSuccess, phone, step, paymentMethod,
                 secondsLeft, network, orderId, paymentProof,
                 paymentSettings, loadingSettings, pollRef, timerRef,
                 elapsed, timers, intervalSeq, errorAlert, fetches, creates,
                 checks, timeouts, successTimers, nextOrder, histOnly>>
  /\ Hist("keepWaiting", "", 0)

\* handleRetry: the 'Try Again' button of the failed step
handleRetry ==
  /\ CanTouch /\ step = "failed"
  /\ retries < MaxRetries /\ Cost + 1 <= budget
  /\ step' = "method"
  /\ orderId' = NoOrder
  /\ paymentProof' = <<>>
  /\ retries' = retries + 1
  /\ attempt' = attempt + 1
  /\ createsThisAttempt' = 0
  /\ UNCHANGED <<visible, showSuccess, phone, paymentMethod, secondsLeft,
                 network, paymentSettings, loadingSettings, pollRef,
                 timerRef, elapsed, timers, intervalSeq, confirmOpen,
                 errorAlert, fetches, creates, checks, timeouts,
                 successTimers, nextOrder, session, createSeq,
                 pollersStarted, successSeq, orderAtt, onSuccessCalls,
                 onCloseCalls>>
  /\ Hist("handleRetry", "", 0)

\* the 'Cancel' button of the failed step
cancelFailed ==
  /\ CanTouch /\ step = "failed"
  /\ closeFlow
  /\ UNCHANGED <<showSuccess, phone, step, paymentMethod, secondsLeft,
                 network, orderId, paymentProof, paymentSettings,
                 loadingSettings, intervalSeq, confirmOpen, errorAlert,
                 fetches, creates, checks, timeouts, successTimers,
                 nextOrder, session, attempt, retries, createSeq,
                 pollersStarted, successSeq, createsThisAttempt, orderAtt,
                 onSuccessCalls>>
  /\ Hist("cancelFailed", "", 0)

\* handleBack: the back arrow of the phone and manual_info steps
handleBack ==
  /\ CanTouch
  /\ \/ step = "phone"
     \/ step = "manual_info" /\ paymentSettings # NoSettings
  /\ IF UssdEnabled(paymentSettings) /\ ManualEnabled(paymentSettings)
     THEN /\ step' = "method"
          /\ UNCHANGED <<visible, pollRef, timerRef, timers, elapsed,
                         onCloseCalls>>
     ELSE /\ closeFlow
          /\ UNCHANGED step
  /\ UNCHANGED <<showSuccess, phone, paymentMethod, secondsLeft, network,
                 orderId, paymentProof, paymentSettings, loadingSettings,
                 intervalSeq, confirmOpen, errorAlert, fetches, creates,
                 checks, timeouts, successTimers, nextOrder, session,
                 attempt, retries, createSeq, pollersStarted, successSeq,
                 createsThisAttempt, orderAtt, onSuccessCalls>>
  /\ Hist("handleBack", "", 0)

\* ------------------------------------------------------------- latency
RequestsInFlight ==
  \/ fetches # {} \/ creates # {}
  \/ \E o \in Orders : checks[o] > 0 \/ timeouts[o] > 0

\* time passes while the shown flow waits and only responses are pending
IdleTick ==
  /\ Dues = {} /\ RequestsInFlight
  /\ visible /\ step = "waiting" /\ waited < MaxWaited
  /\ UNCHANGED progVars
  /\ UNCHANGED histOnly
  /\ Hist("IdleTick", "", IdleStep)

\* ------------------------------------------------------------------ next
Next ==
  \/ SlideToOrder
  \/ \E s \in fetches, raw \in SettingsRaws : SettingsResponse(s, raw)
  \/ \E m \in {"ussd", "manual"} : handleSelectMethod(m)
  \/ \E p \in PhoneInputs : setPhone(p)
  \/ \E t \in ProofInputs : setPaymentProof(t)
  \/ dismissAlert
  \/ handleSubmitPhone
  \/ handleSubmitManualPayment
  \/ \E c \in creates, raw \in CreateRaws(nextOrder + 1) :
       CreateResponseUssd(c, raw)
  \/ \E c \in creates, raw \in CreateRaws(nextOrder + 1) :
       CreateResponseManual(c, raw)
  \/ \E t \in timers, j \in {0, MaxJitter} : CountdownTick(t, j)
  \/ \E t \in timers : PollTick(t)
  \/ \E o \in Orders, raw \in StatusRaws : CheckResponse(o, raw)
  \/ \E o \in Orders, raw \in AckRaws : TimeoutResponse(o, raw)
  \/ \E s \in successTimers : SuccessTimerFire(s)
  \/ handleClose
  \/ confirmClose
  \/ keepWaiting
  \/ handleRetry
  \/ cancelFailed
  \/ handleBack
  \/ IdleTick

Spec == Init /\ [][Next]_vars

\* ------------------------------------------------- runs up to submission
\* The flow from the opening to the answer of the order-creation request,
\* with the user typing any of the sample phones and proof texts.
NextTyping ==
  \/ SlideToOrder
  \/ \E s \in fetches, raw \in SettingsRaws : SettingsResponse(s, raw)
  \/ \E m \in {"ussd", "manual"} : handleSelectMethod(m)
  \/ \E p \in PhoneSamples : setPhone(p)
  \/ \E t \in ProofSamples : setPaymentProof(t)
  \/ dismissAlert
  \/ handleSubmitPhone
  \/ handleSubmitManualPayment
  \/ \E c \in creates, raw \in CreateRaws(nextOrder + 1) :
       CreateResponseUssd(c, raw)
  \/ \E c \in creates, raw \in CreateRaws(nextOrder + 1) :
       CreateResponseManual(c, raw)
  \/ handleBack

SpecTyping == Init /\ [][NextTyping]_vars

\* ---------------------------------------------- runs of the manual rail
\* The manual rail with any payout details in the settings, from the
\* opening of the modal to the answer to the manual order.
NextPayout ==
  \/ SlideToOrder
  \/ \E s \in fetches, raw \in PayoutSettingsRaws : SettingsResponse(s, raw)
  \/ \E m \in {"ussd", "manual"} : handleSelectMethod(m)
  \/ \E p \in PhoneInputs : setPhone(p)
  \/ \E t \in ProofInputs : setPaymentProof(t)
  \/ dismissAlert
  \/ handleSubmitManualPayment
  \/ \E c \in creates, raw \in CreateRaws(nextOrder + 1) :
       CreateResponseManual(c, raw)
  \/ handleClose
  \/ handleBack

SpecPayout == Init /\ [][NextPayout]_vars

\* ------------------------------------------- runs with a second creation
\* The USSD rail with two openings of the modal and two order-creation
\* requests, for as long as the status checks stay unanswered: opening,
\* settings, typing, submission, the answer to the order creation, the two
\* intervals and the close request.
InitReentry == InitState /\ budget = MaxCostReentry

NextReentry ==
  \/ SlideToOrder
  \/ \E s \in fetches, raw \in SettingsRaws : SettingsResponse(s, raw)
  \/ handleSelectMethod("ussd")
  \/ \E p \in PhoneInputs : setPhone(p)
  \/ dismissAlert
  \/ handleSubmitPhone
  \/ \E c \in creates, raw \in CreateRaws(nextOrder + 1) :
       CreateResponseUssd(c, raw)
  \/ \E t \in timers, j \in {0, MaxJitter} : CountdownTick(t, j)
  \/ \E t \in timers : PollTick(t)
  \/ handleClose
  \/ confirmClose
  \/ keepWaiting
  \/ handleBack

SpecReentry == InitReentry /\ [][NextReentry]_vars

\* ================================================================ claims
FailLabels == {"neterr", "success=false", "nodata"}
SubmittingSteps == {"initiating", "manual_submitting"}
Waiting == visible /\ step = "waiting"

\* C1 as stated: within one attempt (one session of the modal, no press of
\* "Try Again") at most one order-creation request is issued.
C1_AtMostOneCreatePerAttempt == createsThisAttempt <= 1

\* C1 amended: every order-creation request is issued by one press of
\* submit in the entry step of its rail ('phone' or 'manual_info'); the
\* press issues exactly one request and enters the submitting step.  No
\* request is issued from a submitting step, 'waiting', 'success',
\* 'failed' or 'method'.
C1_CreateOnlyFromEntryStep ==
  [][createSeq' # createSeq =>
       /\ createSeq' = createSeq + 1
       /\ Cardinality(creates') = Cardinality(creates) + 1
       /\ \/ step = "phone" /\ step' = "initiating"
          \/ step = "manual_info" /\ step' = "manual_submitting"]_vars

\* C1 witness: a second request of the same attempt, issued after the first
\* one failed and without a retry
C1_ResubmittedAfterFailure ==
  /\ createsThisAttempt = 2 /\ retries = 0 /\ session = 1
  /\ step \in SubmittingSteps /\ Cardinality(creates) = 1

\* C2 as stated: whenever the shown flow leaves 'waiting', both intervals
\* are cleared, and no status check is issued while the flow is not in
\* 'waiting'.
C2_TimersClearedOnLeavingWaiting ==
  [][/\ (Waiting /\ ~Waiting' =>
            pollRef' = NoTimer /\ timerRef' = NoTimer /\ timers' = {})
     /\ (~Waiting => \A o \in Orders : checks'[o] <= checks[o])]_vars

\* C3 as stated: onSuccess is invoked at most once for an attempt.
C3_OnSuccessAtMostOnce == \A a \in Attempts : onSuccessCalls[a] <= 1

\* C4 as stated: while the failed step is shown, onSuccess is not invoked
\* and onClose is invoked only by a press of the user.
C4_NoNotificationInFailed ==
  [][visible /\ step = "failed" =>
       /\ onSuccessCalls' = onSuccessCalls
       /\ (onCloseCalls' # onCloseCalls => CanTouch \/ confirmOpen)]_vars

\* C5 as stated: a response that completes for a discarded attempt (the
\* modal is hidden, or the order belongs to an attempt before the current
\* one) neither changes step nor schedules onSuccess.
C5_NoLateCallbackEffect ==
  [][\A o \in Orders :
       /\ checks'[o] < checks[o] \/ timeouts'[o] < timeouts[o]
       /\ ~visible \/ orderAtt[o] # attempt
       => step' = step /\ successSeq' = successSeq]_vars

\* C6: when the countdown of the attempt computes zero while step is
\* 'waiting', both handles are nulled and their intervals cleared and one
\* paymentTimeout request is sent for orderId; when a paymentTimeout
\* request completes, whatever its outcome, step becomes 'failed'.
C6_TimeoutAtZero ==
  [][/\ (/\ lastOp' = <<"CountdownTick", "zero">>
         /\ step = "waiting" /\ timerRef # NoTimer
         /\ \A t \in timers : t.kind = "countdown" => t.id = timerRef
         => /\ pollRef' = NoTimer /\ timerRef' = NoTimer
            /\ \A t \in timers' : t.id \notin {pollRef, timerRef}
            /\ orderId \in Orders
            /\ timeouts' = [timeouts EXCEPT ![orderId] = @ + 1])
     /\ (lastOp'[1] = "TimeoutResponse" =>
            lastOp'[2] \in FailLabels \cup {"data"} /\ step' = "failed")]_vars

\* C6 witness: the countdown ran to zero, the paymentTimeout request threw
\* and the failed step is shown with no interval left
C6_FailedAfterTimeoutThrew ==
  /\ lastOp = <<"TimeoutResponse", "neterr">>
  /\ visible /\ step = "failed" /\ timers = {} /\ waited = 0
  /\ retries = 0 /\ session = 1 /\ successSeq = 0

\* C7 as stated: the shown flow never stays in 'waiting' for more than
\* POLL_TIMEOUT + POLL_INTERVAL.
C7_FailedWithinBudgetPlusInterval ==
  Waiting => waited <= POLL_TIMEOUT + POLL_INTERVAL

\* C8: a status check that fails (a throw, success=false, no data) while
\* step is 'waiting' leaves step, both intervals and their handles as they
\* are and raises no alert; the poll interval stays live, so its next tick
\* issues a new check.
C8_FailedCheckIsSwallowed ==
  [][lastOp'[1] = "CheckResponse" /\ lastOp'[2] \in FailLabels =>
       /\ step = "waiting" /\ step' = "waiting"
       /\ UNCHANGED <<timers, pollRef, timerRef, errorAlert, confirmOpen,
                      visible, orderId, successTimers, timeouts>>
       /\ (pollRef' # NoTimer =>
             \E t \in timers' : t.id = pollRef' /\ t.kind = "poll")]_vars

\* C8 witness: a status check threw and the flow is still waiting with both
\* intervals live
C8_WaitingAfterFailedCheck ==
  /\ lastOp = <<"CheckResponse", "neterr">>
  /\ Waiting /\ pollRef # NoTimer /\ timerRef # NoTimer
  /\ errorAlert = "none"

\* C9: a failed order creation sets step to the entry step of its rail
\* ('phone' for create, 'manual_info' for createManual) and leaves
\* orderId, the intervals, the scheduled onSuccess callbacks, the phone and
\* the proof text as they are.
C9_CreateFailureReverts ==
  [][/\ lastOp'[1] \in {"CreateResponseUssd", "CreateResponseManual"}
     /\ lastOp'[2] \in FailLabels
     => /\ step' = IF lastOp'[1] = "CreateResponseUssd"
                   THEN "phone" ELSE "manual_info"
        /\ UNCHANGED <<orderId, timers, pollRef, timerRef, intervalSeq,
                       successTimers, successSeq, phone, paymentProof,
                       onSuccessCalls, visible>>]_vars

\* C9 witness: createManual threw; the manual entry step is back with the
\* typed phone and proof, no order and no interval
C9_ManualEntryAfterFailure ==
  /\ lastOp = <<"CreateResponseManual", "neterr">>
  /\ step = "manual_info" /\ orderId = NoOrder /\ timers = {}
  /\ phone # <<>> /\ paymentProof # <<>> /\ successTimers = {}

\* C10: a close request while step is 'initiating' or 'manual_submitting'
\* changes nothing and does not invoke onClose.
C10_CloseBlockedWhileSubmitting ==
  [][lastOp' = <<"handleClose", "blocked">> =>
       /\ step \in SubmittingSteps
       /\ UNCHANGED progVars
       /\ onCloseCalls' = onCloseCalls
       /\ onSuccessCalls' = onSuccessCalls]_vars

\* C10 witness: close was pressed while the manual order was being
\* submitted, and the request is still in flight
C10_ClosePressedWhileSubmitting ==
  /\ lastOp = <<"handleClose", "blocked">>
  /\ visible /\ step = "manual_submitting" /\ creates # {}

\* C11: while step is 'waiting', a close request only opens the "Cancel
\* Payment?" alert: it invokes no onClose and leaves step and the intervals
\* as they are; onClose is invoked in 'waiting' only by the 'Close' button
\* of that alert, which also clears both intervals; 'Keep Waiting' leaves
\* step, the handles and the intervals as they are.
C11_CloseWhileWaitingNeedsConfirm ==
  [][/\ (step = "waiting" /\ onCloseCalls' # onCloseCalls =>
            /\ confirmOpen /\ ~confirmOpen' /\ ~visible'
            /\ pollRef' = NoTimer /\ timerRef' = NoTimer
            /\ \A t \in timers' : t.id \notin {pollRef, timerRef})
     /\ (~confirmOpen /\ confirmOpen' =>
            /\ step = "waiting"
            /\ UNCHANGED <<visible, step, timers, pollRef, timerRef,
                           elapsed, onCloseCalls, orderId>>)
     /\ (confirmOpen /\ ~confirmOpen' /\ onCloseCalls' = onCloseCalls =>
            UNCHANGED <<visible, step, timers, pollRef, timerRef, elapsed,
                        orderId>>)]_vars

\* C11 witness: close was pressed while waiting; the alert is up, the flow
\* is still shown, both intervals run and onClose was not invoked
C11_AskedWhileWaiting ==
  /\ confirmOpen /\ Waiting /\ onCloseCalls = 0
  /\ pollRef # NoTimer /\ timerRef # NoTimer /\ Cardinality(timers) = 2

\* the step the flow starts in for the settings ps, as the claims state it
EntryStepFor(ps) ==
  IF UssdEnabled(ps) /\ ~ManualEnabled(ps) THEN "phone"
  ELSE IF ~UssdEnabled(ps) /\ ManualEnabled(ps) THEN "manual_info"
  ELSE "method"

\* C12 as stated: a press of "Try Again" in 'failed' leaves orderId absent
\* and the proof text empty, and step is 'method' when both rails are
\* enabled, 'phone' for ussd-only and 'manual_info' for manual-only
\* settings.
C12_RetryResetsToEntryStep ==
  [][retries' # retries =>
       /\ step = "failed"
       /\ orderId' = NoOrder
       /\ paymentProof' = <<>>
       /\ step' = EntryStepFor(paymentSettings')]_vars

\* C13: a settings response that carries settings stores them, takes the
\* spinner down and resolves the step: ussd only gives 'phone' with method
\* ussd, manual only gives 'manual_info' with method manual, otherwise
\* step and method stay (so the first response of an opening, which finds
\* step = 'method', leaves the method selection); no order-creation
\* request is issued.
C13_SettingsResolveEntryStep ==
  [][lastOp' = <<"SettingsResponse", "data">> =>
       /\ paymentSettings' # NoSettings /\ ~loadingSettings'
       /\ (loadingSettings /\ step = "method" =>
             step' = EntryStepFor(paymentSettings'))
       /\ (EntryStepFor(paymentSettings') = "phone" =>
             step' = "phone" /\ paymentMethod' = "ussd")
       /\ (EntryStepFor(paymentSettings') = "manual_info" =>
             step' = "manual_info" /\ paymentMethod' = "manual")
       /\ (EntryStepFor(paymentSettings') = "method" =>
             UNCHANGED <<step, paymentMethod>>)
       /\ UNCHANGED <<creates, createSeq, orderId, timers, visible>>]_vars

\* C13 witness: the first response of the opening enabled the manual rail
\* only; the flow is in 'manual_info' with method manual and no request
C13_ManualOnlyPreselected ==
  /\ lastOp = <<"SettingsResponse", "data">>
  /\ visible /\ session = 1 /\ fetches = {} /\ ~loadingSettings
  /\ paymentSettings = <<Settings(FALSE, TRUE)>>
  /\ step = "manual_info" /\ paymentMethod = "manual" /\ createSeq = 0

\* C14 as stated: after a settings fetch that failed, the flow stays in
\* the loading pseudo-state (loadingSettings true, step 'method') and no
\* second fetch is issued.
C14_FailedFetchKeepsLoading ==
  [][lastOp'[1] = "SettingsResponse" /\ lastOp'[2] \in FailLabels
       /\ loadingSettings =>
       /\ loadingSettings' /\ step' = "method"
       /\ fetches' \subseteq fetches]_vars

\* C14 amended: a settings fetch that failed (a throw, success=false, no
\* data) takes the spinner down and leaves step, method and settings as
\* they are; a fetch is issued only by an opening of the modal; and while
\* no settings were ever loaded the flow stays in 'method' and issues no
\* order-creation request.
C14_FailedFetchLeavesMethodStep ==
  [][/\ (lastOp'[1] = "SettingsResponse" /\ lastOp'[2] \in FailLabels =>
            /\ ~loadingSettings'
            /\ fetches' \subseteq fetches /\ fetches' # fetches
            /\ UNCHANGED <<step, paymentMethod, paymentSettings, creates,
                           createSeq, orderId, visible, errorAlert>>)
     /\ (~(fetches' \subseteq fetches) => ~visible /\ visible')
     /\ (paymentSettings' = NoSettings =>
            step' = "method" /\ createSeq' = 0)]_vars

\* C14 witness: the only settings fetch threw; the spinner is down, the
\* method selection is shown and there are no settings
C14_MethodStepWithoutSettings ==
  /\ lastOp = <<"SettingsResponse", "neterr">>
  /\ visible /\ ~loadingSettings /\ step = "method"
  /\ paymentSettings = NoSettings /\ fetches = {} /\ session = 1

\* C15: a createManual response with success=true sets step to 'success'
\* at once, starts no interval and issues no request; and no status check,
\* paymentTimeout request or interval ever exists for an order that was
\* not created by the USSD rail.
C15_ManualRailNeverPolls ==
  [][/\ (lastOp' = <<"CreateResponseManual", "ok">> =>
            /\ step' = "success"
            /\ successSeq' = successSeq + 1
            /\ UNCHANGED <<timers, pollRef, timerRef, intervalSeq,
                           pollersStarted, checks, timeouts, orderId>>)
     /\ \A o \in Orders :
          orderAtt'[o] = 0 =>
            /\ checks'[o] = 0 /\ timeouts'[o] = 0
            /\ \A t \in timers' : t.oid # o]_vars

\* C15 witness: the gateway created a manual order; the success step is
\* shown, onSuccess is scheduled, no poller was ever started
C15_ManualOrderPlaced ==
  /\ lastOp = <<"CreateResponseManual", "ok">>
  /\ visible /\ step = "success" /\ successTimers # {}
  /\ nextOrder = 1 /\ orderAtt[1] = 0
  /\ pollersStarted = 0 /\ timers = {} /\ orderId = NoOrder

\* C16: the step in which a status check returns 'completed' nulls both
\* handles, clears their intervals, sets step to 'success' and schedules
\* onSuccess SUCCESS_DELAY ms ahead without invoking it; onSuccess is
\* invoked only by a callback scheduled in an earlier step whose deadline
\* is the earliest pending one, in a step that changes neither step nor
\* the scheduled callbacks left.
C16_SuccessShownBeforeOnSuccess ==
  [][/\ ((\E o \in Orders : checks'[o] < checks[o])
           /\ successSeq' # successSeq =>
            /\ step' = "success"
            /\ pollRef' = NoTimer /\ timerRef' = NoTimer
            /\ \A t \in timers' : t.id \notin {pollRef, timerRef}
            /\ onSuccessCalls' = onSuccessCalls
            /\ successTimers \subseteq successTimers'
            /\ \E s \in successTimers' \ successTimers :
                 s.due = SUCCESS_DELAY /\ s.id = successSeq')
     /\ (onSuccessCalls' # onSuccessCalls =>
            /\ UNCHANGED <<step, successSeq>>
            /\ \E s \in successTimers :
                 /\ \A x \in successTimers : s.due <= x.due
                 /\ successTimers' =
                      {[x EXCEPT !.due = @ - s.due] :
                         x \in successTimers \ {s}}
                 /\ onSuccessCalls' =
                      [onSuccessCalls EXCEPT ![s.att] = @ + 1])]_vars

\* C16 witness: a status check returned 'completed'; the success step is
\* shown, the intervals are gone and onSuccess is still a full delay away
C16_SuccessShownOnSuccessPending ==
  /\ visible /\ step = "success" /\ orderId \in Orders
  /\ pollRef = NoTimer /\ timerRef = NoTimer /\ timers = {}
  /\ \E s \in successTimers : s.due = SUCCESS_DELAY
  /\ \A a \in Attempts : onSuccessCalls[a] = 0

\* the text s without its whitespace characters
NonWhitespaceIndices(s) == {i \in 1..Len(s) : s[i] \notin Whitespace}
RECURSIVE Stripped(_)
Stripped(s) ==
  IF s = <<>> THEN <<>>
  ELSE IF s[Len(s)] \in Whitespace THEN Stripped(SubSeq(s, 1, Len(s) - 1))
  ELSE Append(Stripped(SubSeq(s, 1, Len(s) - 1)), s[Len(s)])

\* s is one of the prefixes 0, 255, +255 followed by exactly nine digits
PhonePrefixes == {<<"0">>, <<"2", "5", "5">>, <<"+", "2", "5", "5">>}
PrefixAndNineDigits(s) ==
  \E pre \in PhonePrefixes :
    /\ Len(s) = Len(pre) + 9
    /\ \A i \in 1..Len(pre) : s[i] = pre[i]
    /\ \A i \in (Len(pre) + 1)..Len(s) : s[i] \in Digits

\* C17: on the typed phone with its whitespace removed, the validator
\* accepts exactly a prefix 0, 255 or +255 followed by nine digits: the
\* sample phones get the verdict expected of them, the "Invalid Number"
\* alert is up only over a phone that is not of that shape, and a
\* submitting step is entered only with a phone of that shape.
C17_PhoneValidatorExact ==
  /\ CleanPhone(phone) = Stripped(phone)
  /\ PhoneValid(CleanPhone(phone)) <=> PrefixAndNineDigits(Stripped(phone))
  /\ phone \in AcceptedPhones => PhoneValid(CleanPhone(phone))
  /\ phone \in RejectedPhones \cup {<<>>} => ~PhoneValid(CleanPhone(phone))
  /\ errorAlert = "Invalid Number" => ~PrefixAndNineDigits(Stripped(phone))
  /\ step \in SubmittingSteps => PrefixAndNineDigits(Stripped(phone))

\* C17 witness: the over-long phone 071234567890 was submitted and refused
C17_OverlongPhoneRefused ==
  /\ phone = <<"0", "7", "1", "2", "3", "4", "5", "6", "7", "8", "9", "0">>
  /\ step = "phone" /\ errorAlert = "Invalid Number" /\ createSeq = 0

\* the length of s between its first and its last non-whitespace character
TrimmedLength(s) ==
  LET I == NonWhitespaceIndices(s) IN
    IF I = {} THEN 0
    ELSE (CHOOSE hi \in I : \A i \in I : i <= hi)
           - (CHOOSE lo \in I : \A i \in I : lo <= i) + 1

\* C18: the proof validator accepts a text exactly when its length after
\* trimming leading and trailing whitespace is at least 10: the sample
\* texts and the empty text get the verdict expected of them, the
\* "Payment Proof Required" alert is up only over a text whose trimmed
\* length is below 10, and the manual submission is under way only with
\* a text whose trimmed length is at least 10.
C18_ProofValidatorExact ==
  /\ Len(Trim(paymentProof)) = TrimmedLength(paymentProof)
  /\ ProofValid(paymentProof) <=> TrimmedLength(paymentProof) >= 10
  /\ paymentProof \in AcceptedProofs => ProofValid(paymentProof)
  /\ paymentProof \in RejectedProofs \cup {<<>>} => ~ProofValid(paymentProof)
  /\ errorAlert = "Payment Proof Required" => TrimmedLength(paymentProof) < 10
  /\ step = "manual_submitting" => TrimmedLength(paymentProof) >= 10

\* C18 witness: a text of eleven characters, nine of them between the
\* padding, was submitted with a valid phone and refused
C18_PaddedShortProofRefused ==
  /\ paymentProof = <<" ", "T", "X", "N", "1", "2", "3", "4", "5", "6", " ">>
  /\ PhoneValid(CleanPhone(phone))
  /\ step = "manual_info" /\ errorAlert = "Payment Proof Required"
  /\ createSeq = 0

\* the submit handler of a rail ran in this step
Submitted(rail) ==
  lastOp'[1] = (IF rail = "ussd" THEN "handleSubmitPhone"
                ELSE "handleSubmitManualPayment")

\* C19: a submit with a phone that is not a prefix and nine digits once
\* its whitespace is removed (either rail), or with a proof text whose
\* trimmed length is below 10 (manual rail), issues no request and leaves
\* step, orderId and the timers as they were; every order-creation
\* request that is issued carries the typed phone without its whitespace,
\* of the accepted shape, and on the manual rail the typed proof text
\* without its padding, of length at least 10.
C19_InvalidSubmitSendsNothing ==
  [][/\ (\/ Submitted("ussd") /\ ~PrefixAndNineDigits(Stripped(phone))
         \/ Submitted("manual") /\ ~PrefixAndNineDigits(Stripped(phone))
         \/ Submitted("manual") /\ TrimmedLength(paymentProof) < 10)
        => UNCHANGED <<step, orderId, timers, pollRef, timerRef, secondsLeft,
                       creates, createSeq, checks, timeouts, fetches>>
     /\ \A c \in creates' \ creates :
          /\ Submitted(c.rail)
          /\ c.paymentPhone = Stripped(phone)
          /\ PrefixAndNineDigits(c.paymentPhone)
          /\ PhoneValid(c.paymentPhone)
          /\ c.rail = "manual" =>
               /\ Len(c.manualPaymentProof) = TrimmedLength(paymentProof)
               /\ Len(c.manualPaymentProof) >= 10
               /\ c.manualPaymentProof[1] \notin Whitespace
               /\ c.manualPaymentProof[Len(c.manualPaymentProof)]
                    \notin Whitespace
               /\ NonWhitespaceIndices(c.manualPaymentProof)
                    = { i - (Len(paymentProof) - Len(TrimStart(paymentProof)))
                        : i \in NonWhitespaceIndices(paymentProof) }]_vars

\* C19 witness: after an order-creation request went out and failed, a
\* manual submit with a good proof text and a bad phone was refused
C19_BadPhoneRefusedAfterRequest ==
  /\ step = "manual_info" /\ errorAlert = "Invalid Number"
  /\ TrimmedLength(paymentProof) >= 10
  /\ ~PrefixAndNineDigits(Stripped(phone))
  /\ createSeq = 1 /\ creates = {} /\ orderId = NoOrder

\* C20: terminal states are stable: step leaves 'failed' only by a retry
\* or by the flow being closed or opened again, and step never goes from
\* 'success' to 'failed'.
C20_TerminalStatesStable ==
  [][/\ (step = "failed" /\ step' # "failed"
           => retries' > retries \/ visible' # visible)
     /\ (step = "success" => step' # "failed")]_vars

\* the handle h is that of an interval that has not been cleared
Live(h) == \E t \in timers : t.id = h

\* C21: while the flow is shown, the status-poll interval and the
\* countdown interval run exactly when step = 'waiting': in 'waiting'
\* pollRef and timerRef hold live intervals, in every other step both are
\* cleared and no interval is left.
C21_TimersRunIffWaiting ==
  visible =>
    IF step = "waiting"
    THEN Live(pollRef) /\ Live(timerRef)
    ELSE pollRef = NoTimer /\ timerRef = NoTimer /\ timers = {}

\* C22: at most one poller exists at any time: startPolling runs only
\* when no interval is live and both handles are clear, and never more than
\* one status-poll interval and one countdown interval are live.
C22_AtMostOnePoller ==
  [][/\ pollersStarted' # pollersStarted =>
          timers = {} /\ pollRef = NoTimer /\ timerRef = NoTimer
     /\ \A k \in {"poll", "countdown"} :
          Cardinality({t \in timers' : t.kind = k}) <= 1]_vars

\* a response arrives in this step for a request that an earlier session
\* or an earlier attempt issued
StaleResponse ==
  \/ \E f \in fetches \ fetches' : f < session
  \/ \E c \in creates \ creates' : c.att < attempt
  \/ \E o \in Orders :
       /\ checks'[o] < checks[o] \/ timeouts'[o] < timeouts[o]
       /\ orderAtt[o] < attempt

\* C23: a response to a request issued during an earlier session or an
\* earlier attempt changes neither step, method, orderId nor the timers of
\* the current attempt and schedules no onSuccess.
C23_StaleResponseHasNoEffect ==
  [][StaleResponse =>
       UNCHANGED <<step, paymentMethod, orderId, timers, pollRef, timerRef,
                   successTimers>>]_vars

\* the place of a step in the order method, entry, submitting, waiting,
\* terminal
EntrySteps == {"phone", "manual_info"}
Rank(st) ==
  CASE st = "method" -> 0
    [] st \in EntrySteps -> 1
    [] st \in SubmittingSteps -> 2
    [] st = "waiting" -> 3
    [] OTHER -> 4

\* step moves to a later place in the order, or the flow is opened afresh
MovesForward == Rank(step') > Rank(step) \/ session' > session
Retried == step = "failed" /\ step' = "method" /\ retries' > retries

\* C24 as stated: step only moves forward in the order method, entry
\* step, submitting step, waiting, terminal step; the only backward move
\* is the retry from 'failed' to 'method'.
C24_OnlyRetryGoesBack == [][step' # step => MovesForward \/ Retried]_vars

\* the back arrow: from an entry step to the method selection, when both
\* rails are enabled
WentBack ==
  /\ step \in EntrySteps /\ step' = "method"
  /\ UssdEnabled(paymentSettings) /\ ManualEnabled(paymentSettings)
  /\ UNCHANGED <<fetches, creates, checks, timeouts, timers, orderId>>

\* a failed creation: from the submitting step to the entry step of its rail
CreationReverted ==
  /\ \/ step = "initiating" /\ step' = "phone"
        /\ \E c \in creates \ creates' : c.rail = "ussd"
     \/ step = "manual_submitting" /\ step' = "manual_info"
        /\ \E c \in creates \ creates' : c.rail = "manual"
  /\ errorAlert' # "none" /\ orderId' = orderId

\* a response that finds the flow elsewhere than where its request left it
\* writes its step all the same
OvertakenResponse ==
  \/ fetches' # fetches /\ step # "method" /\ step' \in EntrySteps
  \/ /\ \E o \in Orders : checks'[o] < checks[o]
     /\ step # "waiting" /\ step' \in {"success", "failed"}
  \/ /\ \E o \in Orders : timeouts'[o] < timeouts[o]
     /\ step # "waiting" /\ step' = "failed"
  \/ \E c \in creates \ creates' :
       IF c.rail = "ussd"
       THEN step # "initiating" /\ step' \in {"waiting", "phone"}
       ELSE step # "manual_submitting" /\ step' \in {"success", "manual_info"}

\* C24 amended: every change of step is a move forward in the order, the
\* retry from 'failed' to 'method', the back arrow from an entry step to
\* 'method' (both rails enabled), the return from a submitting step to the
\* entry step of its rail after a failed creation, or the step written by
\* a response that arrives after the flow has moved on.
C24_BackwardMovesAreNamed ==
  [][step' # step =>
       \/ MovesForward \/ Retried \/ WentBack \/ CreationReverted
       \/ OvertakenResponse]_vars

\* C24 witness: the back arrow was pressed: the flow shows the method
\* selection of its first attempt with a phone already typed
C24_BackAtMethodSelection ==
  /\ visible /\ step = "method" /\ retries = 0
  /\ phone # UserPhone /\ creates = {} /\ createSeq = 0

\* C25: within one attempt orderId never changes from one order to
\* another, and the poller is started only for the order the gateway
\* created for the current attempt, which is then the orderId of the flow.
C25_OrderIdSetOncePerAttempt ==
  [][/\ (orderId # NoOrder /\ orderId' # orderId =>
            orderId' = NoOrder \/ attempt' > attempt)
     /\ (pollersStarted' # pollersStarted =>
            /\ orderId' # NoOrder
            /\ orderAtt'[orderId'] = attempt
            /\ \A t \in timers' \ timers : t.oid = orderId')]_vars

\* r is the number of whole seconds, rounded up and not below zero, that
\* are left of the 90 000 ms budget e ms after the start
SecondsLeftOf(e, r) ==
  \/ r = 0 /\ e >= 90000
  \/ r > 0 /\ 1000 * (r - 1) < 90000 - e /\ 90000 - e <= 1000 * r

\* the countdown of an order of the current attempt has already run, so
\* that fewer than 90 seconds were computed for this attempt
CountdownHasRun ==
  /\ elapsed >= COUNTDOWN_INTERVAL
  /\ \E t \in timers : t.kind = "countdown" /\ orderAtt[t.oid] = attempt

\* C26: the flow enters 'waiting' with 90 seconds shown and the clock at
\* the start timestamp; while it waits, every new value of secondsLeft is
\* max(0, ceil((90000 - elapsed) / 1000)) for the time elapsed since that
\* timestamp when the countdown callback runs; the value lies in 0..90
\* and never increases during an attempt: neither from one countdown
\* callback to the next nor by 'waiting' being entered again once the
\* countdown of the attempt has run.
C26_CountdownFromStartTimestamp ==
  [][/\ (step # "waiting" /\ step' = "waiting" =>
            secondsLeft' = 90 /\ elapsed' = 0)
     /\ (step = "waiting" /\ step' = "waiting" /\ secondsLeft' # secondsLeft =>
            /\ \E j \in {0, MaxJitter} :
                 SecondsLeftOf(elapsed + MinOf(Dues) + j, secondsLeft')
            /\ attempt' = attempt => secondsLeft' < secondsLeft)
     /\ (step # "waiting" /\ step' = "waiting" /\ attempt' = attempt
           /\ CountdownHasRun => secondsLeft' < 90)
     /\ secondsLeft' \in 0..90]_vars

\* the loaded settings name the number and the holder to send the money to
PayoutDetailsLoaded ==
  /\ paymentSettings # NoSettings
  /\ paymentSettings[1].manualPaymentPhone # ""
  /\ paymentSettings[1].manualPaymentName # ""

\* C27: a manual order is submitted only when the loaded settings carry
\* both the payout phone and the payout name: without one of them no
\* create-manual-order request is issued.
C27_NoManualOrderWithoutPayoutDetails ==
  [][\A c \in creates' \ creates :
       c.rail = "manual" => PayoutDetailsLoaded]_vars

\* a paymentTimeout request is sent in this step for order o
TimeoutSent(o) == timeouts'[o] > timeouts[o]

\* C28: a paymentTimeout request is sent only by the countdown reaching
\* zero while the shown flow is waiting for that order, with no other
\* paymentTimeout request of the order outstanding; it is not sent in a
\* terminal step, nor by the user cancelling, closing or retrying.
C28_TimeoutOnlyAtZeroWhileWaiting ==
  [][\A o \in Orders :
       TimeoutSent(o) =>
         /\ lastOp' = <<"CountdownTick", "zero">>
         /\ timeouts'[o] = 1
         /\ visible /\ step = "waiting" /\ orderId = o
         /\ orderAtt[o] = attempt]_vars

\* C29: whenever onSuccess is invoked, the flow is shown in step
\* 'success' and it is invoked for the current attempt: the flow has been
\* neither closed (onClose) nor retried since the success transition.
C29_OnSuccessOnlyInShownSuccess ==
  [][\A a \in Attempts :
       onSuccessCalls'[a] > onSuccessCalls[a] =>
         visible /\ step = "success" /\ a = attempt]_vars

\* C30: an order-creation request is issued on a rail only when
\* paymentSettings was loaded by the settings request of the current
\* session and enables that rail.
C30_CreateOnlyOnEnabledRail ==
  [][\A c \in creates' \ creates :
       /\ settingsFrom = session
       /\ c.rail = "ussd" => UssdEnabled(paymentSettings)
       /\ c.rail = "manual" => ManualEnabled(paymentSettings)]_vars
====
